---- MODULE Spec2Model ----
(***************************************************************************)
(* A model of git2net.py: the diff aligner (identify_edits), the edit      *)
(* characteriser and blame attribution (extract_edits), the commit         *)
(* processor (process_commit) and the scheduler with its SQLite sink       *)
(* (process_repo_serial, process_repo_parallel, mine_git_repo).            *)
(*                                                                         *)
(* Strings are sequences of code points, None is the empty sequence and a  *)
(* present nullable value v is <<v>>.                                      *)
(***************************************************************************)
EXTENDS Integers, Sequences, FiniteSets, TLC

\* The largest line number of a line map.
MaxLine == 4

\* np.inf, the minimum taken for an empty line map: larger than every key.
np_inf == 1000000

\* pre_to_post[pre] = False: the line was removed (False == 0 in Python).
removed == 0

VARIABLES
    deleted_lines,  \* identify_edits: the dict of deleted lines (key -> text)
    added_lines,    \* identify_edits: the dict of added lines (key -> text)
    use_blocks,     \* identify_edits / the run: block mode or line mode
    al,             \* identify_edits: its locals (pre, post, counters, pre_to_post, edits)
    apc,            \* identify_edits: "loop" while in the while loop, then "done"
    commit,         \* process_commit: the commit of args['commit_hash']
    exclude_paths,  \* process_commit: args['exclude_paths']
    result,         \* process_commit: what it returned (None before)
    cpc,            \* where the caller of process_commit is
    con,            \* the SQLite file: the commits and the edits table
    repo,           \* the repository: its commits in get_list_commits order
    runs,           \* the number of runs of mine_git_repo started so far
    last_outcome,   \* how the latest run that ended has ended ("none": no run has)
    mpc,            \* where the running mine_git_repo is ("idle": none runs)
    num_processes,  \* mine_git_repo: its argument
    chunksize,      \* mine_git_repo: its argument
    _p_commits,     \* process_repo_serial / _parallel: the hashes to skip
    args,           \* the hashes of the commits the run processes (lines 292, 315)
    next,           \* the index in args of the next commit to process or dispatch
    df_commits,     \* process_repo_serial: the commit rows so far
    df_edits,       \* process_repo_serial: the edit rows so far
    workers,        \* the pool: the chunks its busy workers are processing
    outq,           \* imap_unordered: the results not yet iterated over
    tedges,         \* what _get_tedges returned (None before)
    dag_edges       \* what _get_dag_edges returned (None before)

avars == <<deleted_lines, added_lines, al, apc>>

cvars == <<commit, result, cpc>>

svars == <<repo, runs, last_outcome, mpc, num_processes, chunksize, _p_commits, args, next,
           df_commits, df_edits, workers, outq>>

pvars == <<tedges, dag_edges>>

vars == <<avars, cvars, svars, pvars, use_blocks, exclude_paths, con>>

----------------------------------------------------------------------------
\* Helpers for Python built-ins.

Max(S) == CHOOSE x \in S : \A y \in S : y <= x

Min(S) == CHOOSE x \in S : \A y \in S : x <= y

min2(a, b) == IF a <= b THEN a ELSE b

\* dict[k] = v
SetItem(f, k, v) == (k :> v) @@ f

RECURSIVE SumSeq(_, _)
SumSeq(s, field) ==
    IF s = <<>> THEN 0 ELSE s[1][field] + SumSeq(Tail(s), field)

----------------------------------------------------------------------------
\* get_block_length (lines 26-48). lines is the set of keys of the dict.

RECURSIVE block_scan(_, _, _)
block_scan(lines, k, block_size) ==
    IF k + block_size \in lines
    THEN block_scan(lines, k, block_size + 1)
    ELSE block_size

\* A scan that counts any key as a block start (the k - 1 test left out).
get_block_length_NoStartTest(lines, k) ==
    IF k \notin lines THEN 0 ELSE block_scan(lines, k, 1)

\* A scan that stops after two lines.
get_block_length_Short(lines, k) ==
    IF k \notin lines \/ (k > 1 /\ k - 1 \in lines)
    THEN 0
    ELSE IF k + 1 \in lines THEN 2 ELSE 1

get_block_length(lines, k) ==
    IF k \notin lines \/ (k > 1 /\ k - 1 \in lines)
    THEN 0
    ELSE block_scan(lines, k, 1)

----------------------------------------------------------------------------
\* identify_edits (lines 51-144). D and A are the key sets of the two dicts.

max_of(keys) == IF keys # {} THEN Max(keys) ELSE -1

min_of(keys) == IF keys # {} THEN Min(keys) ELSE np_inf

\* Lines 72-85: the locals before the loop.
identify_init(D, A) ==
    [pre |-> min2(min_of(A), min_of(D)),
     post |-> min2(min_of(A), min_of(D)),
     no_post_inc |-> 0,
     both_inc |-> 0,
     no_pre_inc |-> 0,
     pre_to_post |-> <<>>,
     edits |-> <<>>]

\* Line 88: the loop condition.
loop_cond(s, D, A) == s.pre <= max_of(D) \/ s.post <= max_of(A)

Edit(pre, nd, post, na) ==
    [pre_start |-> pre, num_deleted |-> nd, post_start |-> post, num_added |-> na]

\* Block mode in which both_inc is left alone: the whole of the larger
\* block goes to its counter.
segment_blocks_NoBothInc(s, D, A) ==
    LET length_added_block == get_block_length(A, s.post)
        length_deleted_block == get_block_length(D, s.pre)
        e == IF length_deleted_block > 0 \/ length_added_block > 0
             THEN Append(s.edits, Edit(s.pre, length_deleted_block,
                                       s.post, length_added_block))
             ELSE s.edits
    IN  IF length_deleted_block > length_added_block
        THEN [s EXCEPT !.edits = e, !.no_post_inc = length_deleted_block]
        ELSE IF length_added_block > length_deleted_block
        THEN [s EXCEPT !.edits = e, !.no_pre_inc = length_added_block]
        ELSE [s EXCEPT !.edits = e]

\* Lines 89-111: use_blocks.
segment_blocks(s, D, A) ==
    LET length_added_block == get_block_length(A, s.post)
        length_deleted_block == get_block_length(D, s.pre)
        e == IF length_deleted_block > 0 \/ length_added_block > 0
             THEN Append(s.edits, Edit(s.pre, length_deleted_block,
                                       s.post, length_added_block))
             ELSE s.edits
    IN  IF length_deleted_block > length_added_block
        THEN [s EXCEPT !.edits = e,
                       !.no_post_inc = length_deleted_block - length_added_block,
                       !.both_inc = length_added_block]
        ELSE IF length_added_block > length_deleted_block
        THEN [s EXCEPT !.edits = e,
                       !.no_pre_inc = length_added_block - length_deleted_block,
                       !.both_inc = length_deleted_block]
        ELSE [s EXCEPT !.edits = e]

BoolInt(b) == IF b THEN 1 ELSE 0

\* Line mode without lines 121-124: the counters are left alone.
segment_lines_NoCounters(s, D, A) ==
    LET pre_in_deleted == s.pre \in D
        post_in_added == s.post \in A
    IN  IF pre_in_deleted \/ post_in_added
        THEN [s EXCEPT !.edits = Append(@, Edit(s.pre, BoolInt(pre_in_deleted),
                                                s.post, BoolInt(post_in_added)))]
        ELSE s

\* Lines 112-124: no blocks.
segment_lines(s, D, A) ==
    LET pre_in_deleted == s.pre \in D
        post_in_added == s.post \in A
        e == IF pre_in_deleted \/ post_in_added
             THEN Append(s.edits, Edit(s.pre, BoolInt(pre_in_deleted),
                                       s.post, BoolInt(post_in_added)))
             ELSE s.edits
    IN  [s EXCEPT !.edits = e,
                  !.no_post_inc = @ + BoolInt(pre_in_deleted /\ ~post_in_added),
                  !.no_pre_inc = @ + BoolInt(post_in_added /\ ~pre_in_deleted)]

\* A both_inc branch that maps the line to itself.
advance_IdentityMap(s) ==
    IF s.both_inc > 0
    THEN [s EXCEPT !.both_inc = @ - 1,
                   !.pre_to_post = SetItem(@, s.pre, s.pre),
                   !.pre = @ + 1, !.post = @ + 1]
    ELSE IF s.no_post_inc > 0
    THEN [s EXCEPT !.no_post_inc = @ - 1,
                   !.pre_to_post = SetItem(@, s.pre, removed),
                   !.pre = @ + 1]
    ELSE IF s.no_pre_inc > 0
    THEN [s EXCEPT !.no_pre_inc = @ - 1, !.post = @ + 1]
    ELSE [s EXCEPT !.pre_to_post = SetItem(@, s.pre, s.post),
                   !.pre = @ + 1, !.post = @ + 1]

\* A no_pre_inc branch that does nothing: neither the counter nor post
\* changes.
advance_Stuck(s) ==
    IF s.both_inc > 0
    THEN [s EXCEPT !.both_inc = @ - 1,
                   !.pre_to_post = SetItem(@, s.pre, s.post),
                   !.pre = @ + 1, !.post = @ + 1]
    ELSE IF s.no_post_inc > 0
    THEN [s EXCEPT !.no_post_inc = @ - 1,
                   !.pre_to_post = SetItem(@, s.pre, removed),
                   !.pre = @ + 1]
    ELSE IF s.no_pre_inc > 0
    THEN s
    ELSE [s EXCEPT !.pre_to_post = SetItem(@, s.pre, s.post),
                   !.pre = @ + 1, !.post = @ + 1]

\* A no_post_inc branch that also increments post.
advance_RemovedAdvancesPost(s) ==
    IF s.both_inc > 0
    THEN [s EXCEPT !.both_inc = @ - 1,
                   !.pre_to_post = SetItem(@, s.pre, s.post),
                   !.pre = @ + 1, !.post = @ + 1]
    ELSE IF s.no_post_inc > 0
    THEN [s EXCEPT !.no_post_inc = @ - 1,
                   !.pre_to_post = SetItem(@, s.pre, removed),
                   !.pre = @ + 1, !.post = @ + 1]
    ELSE IF s.no_pre_inc > 0
    THEN [s EXCEPT !.no_pre_inc = @ - 1, !.post = @ + 1]
    ELSE [s EXCEPT !.pre_to_post = SetItem(@, s.pre, s.post),
                   !.pre = @ + 1, !.post = @ + 1]

\* Lines 126-142: increment pre and post counter.
advance(s) ==
    IF s.both_inc > 0
    THEN [s EXCEPT !.both_inc = @ - 1,
                   !.pre_to_post = SetItem(@, s.pre, s.post),
                   !.pre = @ + 1, !.post = @ + 1]
    ELSE IF s.no_post_inc > 0
    THEN [s EXCEPT !.no_post_inc = @ - 1,
                   !.pre_to_post = SetItem(@, s.pre, removed),
                   !.pre = @ + 1]
    ELSE IF s.no_pre_inc > 0
    THEN [s EXCEPT !.no_pre_inc = @ - 1, !.post = @ + 1]
    ELSE [s EXCEPT !.pre_to_post = SetItem(@, s.pre, s.post),
                   !.pre = @ + 1, !.post = @ + 1]

\* One iteration of the while loop.
loop_body(s, D, A, blocks) ==
    advance(IF blocks THEN segment_blocks(s, D, A) ELSE segment_lines(s, D, A))

RECURSIVE loop(_, _, _, _)
loop(s, D, A, blocks) ==
    IF loop_cond(s, D, A) THEN loop(loop_body(s, D, A, blocks), D, A, blocks) ELSE s

\* The whole function: the pair it returns.
identify_edits(deleted, added, blocks) ==
    LET s == loop(identify_init(DOMAIN deleted, DOMAIN added),
                  DOMAIN deleted, DOMAIN added, blocks)
    IN  [pre_to_post |-> s.pre_to_post, edits |-> s.edits]

----------------------------------------------------------------------------
\* The aligner run one loop iteration at a time, on every pair of line maps
\* with keys in 1..MaxLine.

\* The text of a line where only its number matters.
AnyLine == <<120>>

LineMapsOfKeys == {[k \in K |-> AnyLine] : K \in SUBSET (1 .. MaxLine)}

\* The SQLite file before the first run: no table. metadata is the rows of
\* the table _metadata, which only the commented-out lines 558-566 write.
EmptyStore ==
    [commits |-> <<>>, edits |-> <<>>, edits_table |-> FALSE, edits_lev |-> FALSE,
     metadata |-> <<>>]

\* The variables of the parts a specification does not run.
AlignerUnused ==
    /\ deleted_lines = <<>>
    /\ added_lines = <<>>
    /\ al = <<>>
    /\ apc = "unused"

CommitUnused ==
    /\ commit = <<>>
    /\ result = <<>>
    /\ cpc = "unused"

ProjectionUnused ==
    /\ tedges = <<>>
    /\ dag_edges = <<>>

SchedulerUnused ==
    /\ repo = <<>>
    /\ runs = 0
    /\ last_outcome = "none"
    /\ mpc = "unused"
    /\ num_processes = 0
    /\ chunksize = 0
    /\ args = <<>>
    /\ next = 0
    /\ df_commits = <<>>
    /\ df_edits = <<>>
    /\ workers = {}
    /\ outq = <<>>
    /\ _p_commits = <<>>

AlignInit ==
    /\ deleted_lines \in LineMapsOfKeys
    /\ added_lines \in LineMapsOfKeys
    /\ use_blocks \in BOOLEAN
    /\ al = identify_init(DOMAIN deleted_lines, DOMAIN added_lines)
    /\ apc = "loop"
    /\ exclude_paths = <<>>
    /\ con = EmptyStore
    /\ ProjectionUnused
    /\ CommitUnused
    /\ SchedulerUnused

IterBlocks ==
    /\ apc = "loop"
    /\ use_blocks
    /\ loop_cond(al, DOMAIN deleted_lines, DOMAIN added_lines)
    /\ al' = advance(segment_blocks(al, DOMAIN deleted_lines, DOMAIN added_lines))
    /\ UNCHANGED <<deleted_lines, added_lines, use_blocks, apc>>
    /\ UNCHANGED <<cvars, svars, pvars, exclude_paths, con>>

IterLines ==
    /\ apc = "loop"
    /\ ~use_blocks
    /\ loop_cond(al, DOMAIN deleted_lines, DOMAIN added_lines)
    /\ al' = advance(segment_lines(al, DOMAIN deleted_lines, DOMAIN added_lines))
    /\ UNCHANGED <<deleted_lines, added_lines, use_blocks, apc>>
    /\ UNCHANGED <<cvars, svars, pvars, exclude_paths, con>>

Return ==
    /\ apc = "loop"
    /\ ~loop_cond(al, DOMAIN deleted_lines, DOMAIN added_lines)
    /\ apc' = "done"
    /\ UNCHANGED <<deleted_lines, added_lines, use_blocks, al>>
    /\ UNCHANGED <<cvars, svars, pvars, exclude_paths, con>>

AlignNext == IterBlocks \/ IterLines \/ Return

SpecAlign == AlignInit /\ [][AlignNext]_vars

\* The interpreter keeps running a call of identify_edits: a step of the
\* loop that can be taken is taken.
SpecAlignFair == SpecAlign /\ WF_vars(AlignNext)

\* The aligner on malformed line maps: keys from 1 - MaxMalformed on, one of
\* them at least zero or negative. identify_edits has no statement that
\* raises on them.

\* The number of non-positive line numbers.
MaxMalformed == 2

MalformedInit ==
    /\ \E D, A \in SUBSET ((1 - MaxMalformed) .. MaxMalformed) :
        /\ \E k \in D \cup A : k <= 0
        /\ deleted_lines = [k \in D |-> AnyLine]
        /\ added_lines = [k \in A |-> AnyLine]
        /\ al = identify_init(D, A)
    /\ use_blocks \in BOOLEAN
    /\ apc = "loop"
    /\ exclude_paths = <<>>
    /\ con = EmptyStore
    /\ ProjectionUnused
    /\ CommitUnused
    /\ SchedulerUnused

SpecMalformed == MalformedInit /\ [][AlignNext]_vars

----------------------------------------------------------------------------
\* Strings: sequences of code points.

\* ' ', the separator of ' '.join (line 186) and of split(' ') (line 196).
SPACE == 32

\* '^', which git blame puts before the hash of a boundary commit (line 197).
CARET == 94

\* os.sep (line 264).
os_sep == 47

\* None, and a value that is present.
None == <<>>

Some(v) == <<v>>

\* ' '.join(block)
RECURSIVE join(_)
join(block) ==
    IF block = <<>> THEN <<>>
    ELSE IF Len(block) = 1 THEN block[1]
    ELSE block[1] \o <<SPACE>> \o join(Tail(block))

\* text.count(ch)
RECURSIVE count(_, _)
count(text, ch) ==
    IF text = <<>> THEN 0
    ELSE BoolInt(text[1] = ch) + count(Tail(text), ch)

\* s.startswith(prefix)
startswith(s, prefix) ==
    Len(prefix) <= Len(s) /\ SubSeq(s, 1, Len(prefix)) = prefix

\* s.split(' ')[0]: s up to its first space.
RECURSIVE first_field(_)
first_field(s) ==
    IF s = <<>> \/ s[1] = SPACE THEN <<>>
    ELSE <<s[1]>> \o first_field(Tail(s))

\* s.replace('^', '')
RECURSIVE strip_carets(_)
strip_carets(s) ==
    IF s = <<>> THEN <<>>
    ELSE IF s[1] = CARET THEN strip_carets(Tail(s))
    ELSE <<s[1]>> \o strip_carets(Tail(s))

\* Levenshtein.distance: unit-cost insert, delete, substitute.
RECURSIVE lev_dist(_, _)
lev_dist(a, b) ==
    IF a = <<>> THEN Len(b)
    ELSE IF b = <<>> THEN Len(a)
    ELSE min2(lev_dist(Tail(a), Tail(b)) + BoolInt(a[1] # b[1]),
              min2(lev_dist(Tail(a), b) + 1, lev_dist(a, Tail(b)) + 1))

\* range(256) of text_entropy (line 147).
NumBins == 256

\* scipy.stats.entropy(pk, base=2) is a function of the positive counts of pk
\* and is kept as those counts; with no positive count it divides 0 by 0 and
\* is nan.
entropy(pk) ==
    LET positive == {j \in DOMAIN pk : pk[j] > 0}
    IN  [nan |-> positive = {}, counts |-> [i \in positive |-> pk[i]]]

\* text_entropy (lines 146-147).
text_entropy(text) == entropy([i \in 0 .. NumBins - 1 |-> count(text, i)])

----------------------------------------------------------------------------
\* extract_edits (lines 149-227). mod is a modification as pydriller gives
\* it: filename, new_path, old_path, the parsed diff (deleted, added) and what
\* git blame answers for its path at the parent revision (blame.ok is FALSE
\* for GitCommandError, else blame.lines is the output split in lines).
\* The columns mod_added, mod_removed, mod_cyclomatic_complexity, mod_loc and
\* mod_token_count are copied from pydriller and left out.

\* deleted_lines[i] for i in range(start, start + n)
RECURSIVE block_of(_, _, _)
block_of(lines, start, n) ==
    IF n <= 0 THEN <<>> ELSE <<lines[start]>> \o block_of(lines, start + 1, n - 1)

\* Lines 196-197: the hash in the blame of a line.
original_commit_hash(blame, line) == strip_carets(first_field(blame[line]))

\* Lines 190-204, column by column.
pre_len_in_lines(edit) ==
    IF edit.num_deleted = 0 THEN None ELSE Some(edit.num_deleted)

\* A length that is None for an empty block, as the entropy is.
pre_len_in_chars_NoneIfEmpty(edit, deleted_block) ==
    IF edit.num_deleted = 0 \/ Len(deleted_block) = 0
    THEN None
    ELSE Some(Len(deleted_block))

pre_len_in_chars(edit, deleted_block) ==
    IF edit.num_deleted = 0 THEN None ELSE Some(Len(deleted_block))

pre_entropy(edit, deleted_block) ==
    IF edit.num_deleted = 0 THEN None
    ELSE IF Len(deleted_block) > 0 THEN Some(text_entropy(deleted_block))
    ELSE None

pre_commit(edit, blame) ==
    IF edit.num_deleted = 0 THEN None
    ELSE Some(original_commit_hash(blame, edit.pre_start))

\* Lines 207-220, column by column.
post_len_in_lines(edit) ==
    IF edit.num_added = 0 THEN None ELSE Some(edit.num_added)

post_len_in_chars(edit, added_block) ==
    IF edit.num_added = 0 THEN None ELSE Some(Len(added_block))

post_entropy(edit, added_block) ==
    IF edit.num_added = 0 THEN None
    ELSE IF Len(added_block) > 0 THEN Some(text_entropy(added_block))
    ELSE None

levenshtein_dist(edit, deleted_block, added_block) ==
    IF edit.num_added = 0 THEN None
    ELSE IF Len(added_block) > 0 THEN Some(lev_dist(deleted_block, added_block))
    ELSE None

\* Lines 165-220: the row of one edit.
edit_row(hash, mod, edit) ==
    LET deleted_block == join(block_of(mod.deleted, edit.pre_start, edit.num_deleted))
        added_block == join(block_of(mod.added, edit.post_start, edit.num_added))
    IN  [mod_filename |-> mod.filename,
         mod_new_path |-> mod.new_path,
         mod_old_path |-> mod.old_path,
         post_commit |-> hash,
         pre_starting_line_num |-> edit.pre_start,
         pre_len_in_lines |-> pre_len_in_lines(edit),
         pre_len_in_chars |-> pre_len_in_chars(edit, deleted_block),
         pre_entropy |-> pre_entropy(edit, deleted_block),
         pre_commit |-> pre_commit(edit, mod.blame.lines),
         post_starting_line_num |-> edit.post_start,
         post_len_in_lines |-> post_len_in_lines(edit),
         post_len_in_chars |-> post_len_in_chars(edit, added_block),
         post_entropy |-> post_entropy(edit, added_block),
         levenshtein_dist |-> levenshtein_dist(edit, deleted_block, added_block)]

\* The rows of the edits, last edit first.
RECURSIVE edit_rows_Reversed(_, _, _)
edit_rows_Reversed(hash, mod, edits) ==
    IF edits = <<>> THEN <<>>
    ELSE edit_rows_Reversed(hash, mod, Tail(edits)) \o <<edit_row(hash, mod, edits[1])>>

RECURSIVE edit_rows(_, _, _)
edit_rows(hash, mod, edits) ==
    IF edits = <<>> THEN <<>>
    ELSE <<edit_row(hash, mod, edits[1])>> \o edit_rows(hash, mod, Tail(edits))

\* A try block that holds only the blame of the deleted lines: the rows of
\* the pure insertions are emitted though blame raised.
extract_edits_InsertionsKept(hash, mod, blocks) ==
    LET edits == identify_edits(mod.deleted, mod.added, blocks).edits
        IsInsertion(e) == e.num_deleted = 0
    IN  IF mod.blame.ok
        THEN edit_rows(hash, mod, edits)
        ELSE edit_rows(hash, mod, SelectSeq(edits, IsInsertion))

extract_edits(hash, mod, blocks) ==
    IF mod.blame.ok
    THEN edit_rows(hash, mod, identify_edits(mod.deleted, mod.added, blocks).edits)
    ELSE <<>>

----------------------------------------------------------------------------
\* process_commit (lines 231-278). A commit is its hash, its author and its
\* modifications; a data frame is the sequence of its rows.

\* The test without the path separator: startswith(x).
RECURSIVE exclude_file_NoSeparator(_, _, _)
exclude_file_NoSeparator(mod, paths, flag) ==
    IF paths = <<>> THEN flag
    ELSE LET x == paths[1]
             f1 == flag \/ (mod.new_path # None /\ startswith(mod.new_path, x))
             f2 == f1 \/ (mod.old_path # None /\ startswith(mod.old_path, x))
         IN  exclude_file_NoSeparator(mod, Tail(paths), f2)

\* Lines 260-270: the exclude_file flag after the loop over exclude_paths.
RECURSIVE exclude_file(_, _, _)
exclude_file(mod, paths, flag) ==
    IF paths = <<>> THEN flag
    ELSE LET x == paths[1]
             f1 == flag \/ (mod.new_path # None
                            /\ startswith(mod.new_path, x \o <<os_sep>>))
             f2 == f1 \/ (mod.old_path # None
                          /\ startswith(mod.old_path, x \o <<os_sep>>))
         IN  exclude_file(mod, Tail(paths), f2)

\* Lines 259-274: the loop over the modifications.
RECURSIVE modification_rows(_, _, _, _)
modification_rows(hash, mods, paths, blocks) ==
    IF mods = <<>> THEN <<>>
    ELSE (IF exclude_file(mods[1], paths, FALSE) THEN <<>>
          ELSE extract_edits(hash, mods[1], blocks))
         \o modification_rows(hash, Tail(mods), paths, blocks)

\* Lines 241-256: the commit row.
commit_row(c) ==
    [hash |-> c.hash,
     author_email |-> c.author_email,
     modifications |-> Len(c.modifications)]

process_commit(c, paths, blocks) ==
    [commit |-> <<commit_row(c)>>,
     edits |-> modification_rows(c.hash, c.modifications, paths, blocks)]

----------------------------------------------------------------------------
\* The SQLite sink: DataFrame.to_sql(table, con, if_exists='append'), one
\* transaction per call. The commit frames all have the same columns. An
\* edit frame has the column levenshtein_dist only if one of its rows set
\* the key (lines 212-220: an edit with added lines); appending a frame with
\* a column the table lacks raises sqlite3.OperationalError.

has_lev(frame) == \E i \in 1 .. Len(frame) : frame[i].post_len_in_lines # None

to_sql_commits(db, frame) == [db EXCEPT !.commits = @ \o frame]

to_sql_edits_raises(db, frame) == db.edits_table /\ ~db.edits_lev /\ has_lev(frame)

\* to_sql writes NaN as NULL.
sql_value(v) == IF v # None /\ v[1].nan THEN None ELSE v

sql_row(r) ==
    [r EXCEPT !.pre_entropy = sql_value(@), !.post_entropy = sql_value(@)]

RECURSIVE sql_rows(_)
sql_rows(frame) ==
    IF frame = <<>> THEN <<>> ELSE <<sql_row(frame[1])>> \o sql_rows(Tail(frame))

to_sql_edits(db, frame) ==
    [db EXCEPT !.edits = @ \o sql_rows(frame),
               !.edits_table = TRUE,
               !.edits_lev = IF db.edits_table THEN @ ELSE has_lev(frame)]

----------------------------------------------------------------------------
\* The inputs: what pydriller and git give for a repository.

\* The length of a commit hash (git: 40 hexadecimal digits).
HashLen == 10

\* The length of the abbreviated hash git blame prints (and lines 400-414
\* compare on).
ShortHash == 8

\* The hash of the i-th commit: the digit i, HashLen times.
HashOf(i) == [k \in 1 .. HashLen |-> 48 + i]

\* The line git blame prints for a line last changed by commit h: the
\* abbreviated hash, or for a boundary commit '^' and one digit less.
BlameLine(h) == SubSeq(h, 1, ShortHash) \o <<SPACE, 40>>

BoundaryBlameLine(h) == <<CARET>> \o SubSeq(h, 1, ShortHash - 1) \o <<SPACE, 40>>

\* Paths: "s/a", "d/b"; the exclude prefix "d".
Path_s_a == <<115, os_sep, 97>>

Path_d_b == <<100, os_sep, 98>>

Prefix_d == <<100>>

\* The largest line number of a modification of a processed commit.
MaxModLine == 2

\* The texts of deleted lines ("", "a") and of added lines ("", "b" and a
\* letter above U+00FF).
DeletedTexts == {<<>>, <<97>>}

AddedTexts == {<<>>, <<98>>, <<955>>}

LineMaps(texts) ==
    UNION {[K -> texts] : K \in SUBSET (1 .. MaxModLine)}

\* What git blame answers for a parent file of MaxModLine lines: commit 1
\* changed the lines before line k last and the boundary commit 2 the others.
Blame(k) ==
    [ok |-> TRUE,
     lines |-> [l \in 1 .. MaxModLine |->
                  IF l < k THEN BlameLine(HashOf(1)) ELSE BoundaryBlameLine(HashOf(2))]]

\* git blame raises GitCommandError.
BlameRaises == [ok |-> FALSE, lines |-> <<>>]

\* A modification of the file s/a.
Modification(d, a, b) ==
    [filename |-> <<97>>, new_path |-> Path_s_a, old_path |-> Path_s_a,
     deleted |-> d, added |-> a, blame |-> b]

\* A modification of another file of the same commit: line 1 of d/b replaced.
Sibling ==
    [filename |-> <<98>>, new_path |-> Path_d_b, old_path |-> Path_d_b,
     deleted |-> (1 :> <<97>>), added |-> (1 :> <<98>>),
     blame |-> [ok |-> TRUE, lines |-> <<BlameLine(HashOf(1))>>]]

\* Commit 3, which modifies s/a by m, alone or together with d/b.
Commit(ms) == [hash |-> HashOf(3), author_email |-> "x", modifications |-> ms]

----------------------------------------------------------------------------
\* process_commit on commit 3, and the sink's two appends of its result
\* (lines 322-326).

CommitInit ==
    /\ \E d \in LineMaps(DeletedTexts), a \in LineMaps(AddedTexts),
          b \in {BlameRaises} \cup {Blame(k) : k \in 1 .. MaxModLine + 1} :
          LET m == Modification(d, a, b)
          IN  commit \in {Commit(<<m>>), Commit(<<m, Sibling>>)}
    /\ exclude_paths \in {<<>>, <<Prefix_d>>}
    /\ use_blocks \in BOOLEAN
    /\ result = <<>>
    /\ cpc = "call"
    /\ con = EmptyStore
    /\ ProjectionUnused
    /\ AlignerUnused
    /\ SchedulerUnused

ProcessCommit ==
    /\ cpc = "call"
    /\ result' = process_commit(commit, exclude_paths, use_blocks)
    /\ cpc' = "returned"
    /\ UNCHANGED <<commit, avars, svars, pvars, use_blocks, exclude_paths, con>>

\* Lines 323-324.
AppendCommit ==
    /\ cpc = "returned"
    /\ con' = IF result.commit # <<>> THEN to_sql_commits(con, result.commit) ELSE con
    /\ cpc' = "commit_appended"
    /\ UNCHANGED <<commit, result, avars, svars, pvars, use_blocks, exclude_paths>>

\* Lines 325-326.
AppendEdits ==
    /\ cpc = "commit_appended"
    /\ con' = IF result.edits # <<>> THEN to_sql_edits(con, result.edits) ELSE con
    /\ cpc' = "appended"
    /\ UNCHANGED <<commit, result, avars, svars, pvars, use_blocks, exclude_paths>>

CommitNext == ProcessCommit \/ AppendCommit \/ AppendEdits

SpecCommit == CommitInit /\ [][CommitNext]_vars

----------------------------------------------------------------------------
\* process_commit under an exclude file: a commit of two modifications, of
\* the files a and b, each in one of the directories s, d and dd and each
\* new, or moved there from one of them; and up to MaxExclude exclude paths.

\* The largest number of lines of the exclude file.
MaxExclude == 2

\* The directories "s", "d", "dd".
Dirs == {<<115>>, <<100>>, <<100, 100>>}

PathIn(dir, file) == dir \o <<os_sep, file>>

\* The lines of the exclude file: "s", "d" and the path "d/b".
ExcludeLines == {<<115>>, <<100>>, Path_d_b}

\* The modification of a file: its line 1 replaced, blame succeeding.
Touched(file, old_path, new_path) ==
    [filename |-> <<file>>, new_path |-> new_path, old_path |-> old_path,
     deleted |-> (1 :> <<97>>), added |-> (1 :> <<98>>),
     blame |-> [ok |-> TRUE, lines |-> <<BlameLine(HashOf(1))>>]]

TouchedFiles(file) ==
    {Touched(file, o, PathIn(n, file)) :
        o \in {None} \cup {PathIn(d, file) : d \in Dirs}, n \in Dirs}

ExcludeInit ==
    /\ \E m1 \in TouchedFiles(97), m2 \in TouchedFiles(98) :
          commit = Commit(<<m1, m2>>)
    /\ exclude_paths \in UNION {[1 .. n -> ExcludeLines] : n \in 0 .. MaxExclude}
    /\ use_blocks \in BOOLEAN
    /\ result = <<>>
    /\ cpc = "call"
    /\ con = EmptyStore
    /\ ProjectionUnused
    /\ AlignerUnused
    /\ SchedulerUnused

SpecExclude == ExcludeInit /\ [][CommitNext]_vars

----------------------------------------------------------------------------
\* The repositories mined: the first commits of a history in which commit
\* 1, 4, ... adds the files s/a and d/b (the blame at the parent raises),
\* commit 2, 5, ... replaces two lines of s/a by one and a line of d/b, and
\* commit 3, 6, ... deletes the last line of s/a.

\* The largest number of commits of a repository.
MaxCommits == 2

FileAdded ==
    [filename |-> <<97>>, new_path |-> Path_s_a, old_path |-> None,
     deleted |-> <<>>, added |-> (1 :> <<98>>) @@ (2 :> <<98>>) @@ (3 :> <<98>>),
     blame |-> BlameRaises]

SiblingAdded ==
    [filename |-> <<98>>, new_path |-> Path_d_b, old_path |-> None,
     deleted |-> <<>>, added |-> (1 :> <<97>>),
     blame |-> BlameRaises]

LinesReplaced ==
    [filename |-> <<97>>, new_path |-> Path_s_a, old_path |-> Path_s_a,
     deleted |-> (1 :> <<98>>) @@ (2 :> <<98>>), added |-> (1 :> <<97>>),
     blame |-> [ok |-> TRUE,
                lines |-> [l \in 1 .. 3 |-> BoundaryBlameLine(HashOf(1))]]]

SiblingReplaced ==
    [Sibling EXCEPT !.blame.lines = <<BoundaryBlameLine(HashOf(1))>>]

LineDeleted ==
    [filename |-> <<97>>, new_path |-> Path_s_a, old_path |-> Path_s_a,
     deleted |-> (2 :> <<98>>), added |-> <<>>,
     blame |-> [ok |-> TRUE,
                lines |-> <<BlameLine(HashOf(2)), BoundaryBlameLine(HashOf(1))>>]]

RepoCommit(i) ==
    [hash |-> HashOf(i),
     author_email |-> IF i % 2 = 1 THEN "x" ELSE "y",
     modifications |->
        IF i % 3 = 1 THEN <<FileAdded, SiblingAdded>>
        ELSE IF i % 3 = 2 THEN <<LinesReplaced, SiblingReplaced>>
        ELSE <<LineDeleted>>]

Repos == {[i \in 1 .. n |-> RepoCommit(i)] : n \in 1 .. MaxCommits}

----------------------------------------------------------------------------
\* mine_git_repo, process_repo_serial and process_repo_parallel (lines
\* 281-327 and 518-577), run up to MaxRuns times on the same SQLite file; a
\* run ends by returning, by an exception, or by being terminated from
\* outside.

\* The largest number of runs, of worker processes and the largest chunk.
MaxRuns == 2

MaxProcesses == 2

MaxChunk == 2

\* Line 569: the resume block above it is commented out.
p_commits == <<>>

InList(x, list) == \E i \in 1 .. Len(list) : list[i] = x

\* The hashes of all commits, _p_commits ignored.
commits_to_process_All(commits, skip) ==
    [i \in 1 .. Len(commits) |-> commits[i].hash]

\* Lines 292 and 315-317: the hashes of the commits not in _p_commits.
RECURSIVE commits_to_process(_, _)
commits_to_process(commits, skip) ==
    IF commits = <<>> THEN <<>>
    ELSE (IF InList(commits[1].hash, skip) THEN <<>> ELSE <<commits[1].hash>>)
         \o commits_to_process(Tail(commits), skip)

\* git_repo.get_commit(hash) (line 235).
get_commit(hash) == repo[CHOOSE i \in 1 .. Len(repo) : repo[i].hash = hash]

\* process_commit(args) for the args of one commit.
process_args(hash) == process_commit(get_commit(hash), exclude_paths, use_blocks)

\* A chunk handled as one task: only its first commit is processed.
process_chunk_FirstOnly(chunk) ==
    IF chunk = <<>> THEN <<>> ELSE <<process_args(chunk[1])>>

\* The results of a chunk of tasks, in the order of the chunk.
RECURSIVE process_chunk(_)
process_chunk(chunk) ==
    IF chunk = <<>> THEN <<>>
    ELSE <<process_args(chunk[1])>> \o process_chunk(Tail(chunk))

\* The process is gone: its locals with it (the argument _p_commits of the
\* call stays on record).
Ended(how) ==
    /\ mpc' = "idle"
    /\ last_outcome' = how
    /\ num_processes' = 0
    /\ chunksize' = 0
    /\ args' = <<>>
    /\ next' = 0
    /\ df_commits' = <<>>
    /\ df_edits' = <<>>
    /\ workers' = {}
    /\ outq' = <<>>
    /\ _p_commits' = _p_commits

Frame == <<repo, use_blocks, exclude_paths, avars, cvars, pvars>>

\* Before the first run: a repository, a mode, no exclude file (exclude=[]
\* of line 519, so exclude_paths is [] at lines 283-286) and no SQLite file.
Init ==
    /\ repo \in Repos
    /\ use_blocks \in BOOLEAN
    /\ exclude_paths = <<>>
    /\ con = EmptyStore
    /\ ProjectionUnused
    /\ runs = 0
    /\ last_outcome = "none"
    /\ mpc = "idle"
    /\ num_processes = 0
    /\ chunksize = 0
    /\ args = <<>>
    /\ next = 0
    /\ df_commits = <<>>
    /\ df_edits = <<>>
    /\ workers = {}
    /\ outq = <<>>
    /\ _p_commits = <<>>
    /\ AlignerUnused
    /\ CommitUnused

\* Lines 575-577 and 281-292: mine_git_repo with num_processes = 1.
MineSerial ==
    /\ mpc = "idle"
    /\ runs < MaxRuns
    /\ runs' = runs + 1
    /\ num_processes' = 1
    /\ chunksize' = 1
    /\ _p_commits' = p_commits
    /\ args' = commits_to_process(repo, _p_commits')
    /\ next' = 1
    /\ df_commits' = <<>>
    /\ df_edits' = <<>>
    /\ mpc' = "serial"
    /\ UNCHANGED <<Frame, con, last_outcome, workers, outq>>

\* Lines 293-298: one iteration of the loop of process_repo_serial.
SerialProcess ==
    /\ mpc = "serial"
    /\ next <= Len(args)
    /\ LET res == process_args(args[next])
       IN  /\ df_commits' = df_commits \o res.commit
           /\ df_edits' = df_edits \o res.edits
    /\ next' = next + 1
    /\ UNCHANGED <<Frame, con, runs, last_outcome, mpc, num_processes, chunksize, _p_commits,
                   args, workers, outq>>

\* Lines 300-302.
SerialAppendCommits ==
    /\ mpc = "serial"
    /\ next > Len(args)
    /\ con' = IF df_commits # <<>> THEN to_sql_commits(con, df_commits) ELSE con
    /\ mpc' = "serial_edits"
    /\ UNCHANGED <<Frame, runs, last_outcome, num_processes, chunksize, _p_commits, args, next,
                   df_commits, df_edits, workers, outq>>

\* Lines 303-304, and the return.
SerialAppendEdits ==
    /\ mpc = "serial_edits"
    /\ IF df_edits = <<>>
       THEN con' = con /\ Ended("complete")
       ELSE IF to_sql_edits_raises(con, df_edits)
       THEN con' = con /\ Ended("error")
       ELSE con' = to_sql_edits(con, df_edits) /\ Ended("complete")
    /\ UNCHANGED <<Frame, runs>>

\* Lines 571-574 and 307-322: mine_git_repo with num_processes > 1.
MineParallel ==
    /\ mpc = "idle"
    /\ runs < MaxRuns
    /\ runs' = runs + 1
    /\ \E n \in 2 .. MaxProcesses, c \in 1 .. MaxChunk :
        /\ num_processes' = n
        /\ chunksize' = c
    /\ workers' = {}
    /\ _p_commits' = p_commits
    /\ args' = commits_to_process(repo, _p_commits')
    /\ next' = 1
    /\ outq' = <<>>
    /\ mpc' = "parallel"
    /\ UNCHANGED <<Frame, con, last_outcome, df_commits, df_edits>>

Running == mpc \in {"parallel", "parallel_edits"}

\* An idle worker of the pool takes the next chunk of tasks. The workers
\* are alike: the pool is the set of the chunks in process.
WorkerTake ==
    /\ Running
    /\ next <= Len(args)
    /\ Cardinality(workers) < num_processes
    /\ workers' = workers \cup
                    {SubSeq(args, next, min2(next + chunksize - 1, Len(args)))}
    /\ next' = min2(next + chunksize - 1, Len(args)) + 1
    /\ UNCHANGED <<Frame, con, runs, last_outcome, mpc, num_processes, chunksize, _p_commits, args,
                   df_commits, df_edits, outq>>

\* A worker has processed its chunk (process_commit on each task) and its
\* results reach the iterator of imap_unordered.
WorkerReturn ==
    /\ Running
    /\ \E chunk \in workers :
        /\ outq' = outq \o process_chunk(chunk)
        /\ workers' = workers \ {chunk}
    /\ UNCHANGED <<Frame, con, runs, last_outcome, mpc, num_processes, chunksize, _p_commits, args, next,
                   df_commits, df_edits>>

\* Lines 322-324: the next result, and its commit row.
SinkCommit ==
    /\ mpc = "parallel"
    /\ outq # <<>>
    /\ con' = IF outq[1].commit # <<>> THEN to_sql_commits(con, outq[1].commit) ELSE con
    /\ mpc' = "parallel_edits"
    /\ UNCHANGED <<Frame, runs, last_outcome, num_processes, chunksize, _p_commits, args, next,
                   df_commits, df_edits, workers, outq>>

\* Lines 325-327: its edit rows.
SinkEdits ==
    /\ mpc = "parallel_edits"
    /\ IF outq[1].edits # <<>> /\ to_sql_edits_raises(con, outq[1].edits)
       THEN con' = con /\ Ended("error")
       ELSE /\ con' = IF outq[1].edits # <<>> THEN to_sql_edits(con, outq[1].edits)
                      ELSE con
            /\ outq' = Tail(outq)
            /\ mpc' = "parallel"
            /\ UNCHANGED <<last_outcome, num_processes, chunksize, _p_commits, args, next,
                           df_commits, df_edits, workers>>
    /\ UNCHANGED <<Frame, runs>>

\* Line 322: the iterator is exhausted, process_repo_parallel returns.
ParallelReturn ==
    /\ mpc = "parallel"
    /\ outq = <<>>
    /\ next > Len(args)
    /\ workers = {}
    /\ Ended("complete")
    /\ UNCHANGED <<Frame, con, runs>>

\* The run is terminated from outside.
Terminate ==
    /\ mpc # "idle"
    /\ Ended("terminated")
    /\ UNCHANGED <<Frame, con, runs>>

Next ==
    \/ MineSerial
    \/ SerialProcess
    \/ SerialAppendCommits
    \/ SerialAppendEdits
    \/ MineParallel
    \/ WorkerTake
    \/ WorkerReturn
    \/ SinkCommit
    \/ SinkEdits
    \/ ParallelReturn
    \/ Terminate

Spec == Init /\ [][Next]_vars

----------------------------------------------------------------------------
\* process_repo_serial and process_repo_parallel called directly, once, on
\* a new SQLite file, with a list _p_commits of hashes to skip.

\* The repositories: one commit more than those of the runs above.
ScheduleRepos == {[i \in 1 .. n |-> RepoCommit(i)] : n \in 1 .. MaxCommits + 1}

\* The hashes of the history.
HistoryHashes == {HashOf(i) : i \in 1 .. MaxCommits + 1}

\* The lists _p_commits: hashes of the history, of the repository or not, in
\* any order.
PCommitLists ==
    {l \in UNION {[1 .. n -> HistoryHashes] : n \in 0 .. MaxCommits} :
        \A i, j \in 1 .. Len(l) : l[i] = l[j] => i = j}

\* Before the call: a repository, a mode, no exclude file and no SQLite file.
ScheduleInit ==
    /\ repo \in ScheduleRepos
    /\ use_blocks \in BOOLEAN
    /\ exclude_paths = <<>>
    /\ con = EmptyStore
    /\ ProjectionUnused
    /\ runs = 0
    /\ last_outcome = "none"
    /\ mpc = "idle"
    /\ num_processes = 0
    /\ chunksize = 0
    /\ args = <<>>
    /\ next = 0
    /\ df_commits = <<>>
    /\ df_edits = <<>>
    /\ workers = {}
    /\ outq = <<>>
    /\ _p_commits = <<>>
    /\ AlignerUnused
    /\ CommitUnused

\* Lines 281-292.
process_repo_serial ==
    /\ mpc = "idle"
    /\ runs = 0
    /\ runs' = 1
    /\ num_processes' = 1
    /\ chunksize' = 1
    /\ _p_commits' \in PCommitLists
    /\ args' = commits_to_process(repo, _p_commits')
    /\ next' = 1
    /\ df_commits' = <<>>
    /\ df_edits' = <<>>
    /\ mpc' = "serial"
    /\ UNCHANGED <<Frame, con, last_outcome, workers, outq>>

\* Lines 307-322.
process_repo_parallel ==
    /\ mpc = "idle"
    /\ runs = 0
    /\ runs' = 1
    /\ \E n \in 1 .. MaxProcesses, c \in 1 .. MaxChunk :
        /\ num_processes' = n
        /\ chunksize' = c
    /\ workers' = {}
    /\ _p_commits' \in PCommitLists
    /\ args' = commits_to_process(repo, _p_commits')
    /\ next' = 1
    /\ outq' = <<>>
    /\ mpc' = "parallel"
    /\ UNCHANGED <<Frame, con, last_outcome, df_commits, df_edits>>

ScheduleNext ==
    \/ process_repo_serial
    \/ SerialProcess
    \/ SerialAppendCommits
    \/ SerialAppendEdits
    \/ process_repo_parallel
    \/ WorkerTake
    \/ WorkerReturn
    \/ SinkCommit
    \/ SinkEdits
    \/ ParallelReturn

SpecSchedule == ScheduleInit /\ [][ScheduleNext]_vars

----------------------------------------------------------------------------
\* The projections _get_tedges (lines 396-420) and _get_dag_edges (lines
\* 471-497): one SQL query each on the store. The column time
\* (committer_date) is left out.

\* substr(x, 1, 8)
substr8(x) == SubSeq(x, 1, min2(ShortHash, Len(x)))

\* The query names the tables commits and edits and the column
\* levenshtein_dist (lines 404, 409, 483): without them sqlite3 raises.
query_raises(db) == db.commits = <<>> \/ ~db.edits_table \/ ~db.edits_lev

\* Lines 406-412 and 480-486: edits JOIN commits AS c_pre ON
\* substr(c_pre.hash, 1, 8) == edits.pre_commit (NULL equals nothing).
joins_pre(db, i, j) ==
    /\ db.edits[i].pre_commit # None
    /\ substr8(db.commits[j].hash) = db.edits[i].pre_commit[1]

\* Lines 413-414 and 488-492: JOIN commits AS c_post ON
\* substr(c_post.hash, 1, 8) == substr(x.post_commit, 1, 8).
joins_post(db, i, k) ==
    substr8(db.commits[k].hash) = substr8(db.edits[i].post_commit)

\* Lines 416 and 493: WHERE source != target.
where(db, j, k) == db.commits[j].author_email # db.commits[k].author_email

\* The rows the joins and the WHERE clause leave: edit i with the commit
\* rows j (c_pre) and k (c_post).
joined(db) ==
    {t \in (1 .. Len(db.edits)) \X (1 .. Len(db.commits)) \X (1 .. Len(db.commits)) :
        /\ joins_pre(db, t[1], t[2])
        /\ joins_post(db, t[1], t[3])
        /\ where(db, t[2], t[3])}

\* One row per joined triple (no DISTINCT), in no order.
_get_tedges(db) ==
    IF query_raises(db) THEN [ok |-> FALSE, rows |-> {}]
    ELSE [ok |-> TRUE,
          rows |-> {[edit |-> t[1], c_pre |-> t[2], c_post |-> t[3],
                     source |-> db.commits[t[2]].author_email,
                     pre_commit |-> substr8(db.edits[t[1]].pre_commit[1]),
                     target |-> db.commits[t[3]].author_email,
                     post_commit |-> substr8(db.edits[t[1]].post_commit),
                     levenshtein_dist |-> db.edits[t[1]].levenshtein_dist] :
                    t \in joined(db)}]

\* SELECT DISTINCT source, target: author || "," || 8 characters of the hash.
_get_dag_edges(db) ==
    IF query_raises(db) THEN [ok |-> FALSE, rows |-> {}]
    ELSE [ok |-> TRUE,
          rows |-> {[source |-> <<db.commits[t[2]].author_email,
                                  substr8(db.edits[t[1]].pre_commit[1])>>,
                     target |-> <<db.commits[t[3]].author_email,
                                  substr8(db.edits[t[1]].post_commit)>>] :
                    t \in joined(db)}]

\* The stores queried: what the runs leave for a history of three commits
\* of the file s/a. Commit 1, the root, adds two lines; commit 2 replaces
\* line 2; commit 3 deletes some of the lines and may add one. git blame
\* prints abbrev hexadecimal digits of a hash, and for a line of the root
\* (a boundary commit) '^' and one digit less; abbrev is ShortHash in a
\* small repository and grows with the number of objects.

\* The largest number of digits git blame prints beyond ShortHash.
MaxExtraDigits == 1

Author == {"x", "y"}

BlameLineOf(h, abbrev) == SubSeq(h, 1, abbrev) \o <<SPACE, 40>>

BoundaryBlameLineOf(h, abbrev) ==
    <<CARET>> \o SubSeq(h, 1, abbrev - 1) \o <<SPACE, 40>>

HistoryCommit(i, author, abbrev, deleted, added) ==
    [hash |-> HashOf(i),
     author_email |-> author,
     modifications |->
        IF i = 1 THEN <<FileAdded>>
        ELSE IF i = 2
        THEN <<[filename |-> <<97>>, new_path |-> Path_s_a, old_path |-> Path_s_a,
                deleted |-> (2 :> <<98>>), added |-> (2 :> <<97>>),
                blame |-> [ok |-> TRUE,
                           lines |-> [l \in 1 .. 3 |->
                                        BoundaryBlameLineOf(HashOf(1), abbrev)]]]>>
        ELSE <<[filename |-> <<97>>, new_path |-> Path_s_a, old_path |-> Path_s_a,
                deleted |-> deleted, added |-> added,
                blame |-> [ok |-> TRUE,
                           lines |-> [l \in 1 .. 3 |->
                                        IF l = 2 THEN BlameLineOf(HashOf(2), abbrev)
                                        ELSE BoundaryBlameLineOf(HashOf(1), abbrev)]]]>>]

\* The store after the results of the commits of a history are appended one
\* by one (lines 322-326); an append that raises ends the run.
RECURSIVE StoreOf(_, _, _)
StoreOf(db, history, blocks) ==
    IF history = <<>> THEN db
    ELSE LET res == process_commit(history[1], <<>>, blocks)
             db1 == to_sql_commits(db, res.commit)
         IN  IF res.edits = <<>> THEN StoreOf(db1, Tail(history), blocks)
             ELSE IF to_sql_edits_raises(db1, res.edits) THEN db1
             ELSE StoreOf(to_sql_edits(db1, res.edits), Tail(history), blocks)

ProjectInit ==
    /\ use_blocks \in BOOLEAN
    /\ \E a1, a2, a3 \in Author,
          abbrev \in ShortHash .. ShortHash + MaxExtraDigits,
          D \in (SUBSET {1, 2}) \ {{}}, A \in SUBSET {1},
          processed \in SUBSET {1, 2, 3} :
          LET history == <<HistoryCommit(1, a1, abbrev, <<>>, <<>>),
                           HistoryCommit(2, a2, abbrev, <<>>, <<>>),
                           HistoryCommit(3, a3, abbrev,
                                         [k \in D |-> <<98>>], [k \in A |-> <<97>>])>>
              InProcessed(c) == \E i \in processed : c.hash = HashOf(i)
          IN  /\ repo = history
              /\ con = StoreOf(EmptyStore, SelectSeq(history, InProcessed), use_blocks)
    /\ exclude_paths = <<>>
    /\ ProjectionUnused
    /\ runs = 0
    /\ last_outcome = "none"
    /\ mpc = "unused"
    /\ num_processes = 0
    /\ chunksize = 0
    /\ args = <<>>
    /\ next = 0
    /\ df_commits = <<>>
    /\ df_edits = <<>>
    /\ workers = {}
    /\ outq = <<>>
    /\ _p_commits = <<>>
    /\ AlignerUnused
    /\ CommitUnused

GetTedges ==
    /\ tedges = None
    /\ tedges' = Some(_get_tedges(con))
    /\ UNCHANGED <<avars, cvars, svars, dag_edges, use_blocks, exclude_paths, con>>

GetDagEdges ==
    /\ dag_edges = None
    /\ dag_edges' = Some(_get_dag_edges(con))
    /\ UNCHANGED <<avars, cvars, svars, tedges, use_blocks, exclude_paths, con>>

ProjectNext == GetTedges \/ GetDagEdges

SpecProject == ProjectInit /\ [][ProjectNext]_vars

----------------------------------------------------------------------------
\* What the claims about the runs speak of.

Range(seq) == {seq[i] : i \in 1 .. Len(seq)}

CountIn(seq, x) == Cardinality({i \in 1 .. Len(seq) : seq[i] = x})

SameMultiset(a, b) ==
    \A x \in Range(a) \cup Range(b) : CountIn(a, x) = CountIn(b, x)

RepoHashes == {repo[i].hash : i \in 1 .. Len(repo)}

StoredHashes == {con.commits[i].hash : i \in 1 .. Len(con.commits)}

\* The rows of all commits of the repository, in the order of its commits.
RECURSIVE RowsOfCommits(_, _)
RowsOfCommits(commits, table) ==
    IF commits = <<>> THEN <<>>
    ELSE process_args(commits[1].hash)[table] \o RowsOfCommits(Tail(commits), table)

AllCommitRows == RowsOfCommits(repo, "commit")

AllEditRows == sql_rows(RowsOfCommits(repo, "edits"))

Completed == mpc = "idle" /\ last_outcome = "complete"

\* C3. Resume: a run started on the store an aborted run has left processes
\* exactly the commits of the repository whose commit row the store does not
\* hold.
C3_Resume ==
    [][(/\ mpc = "idle"
        /\ mpc' # "idle"
        /\ last_outcome = "terminated")
       => Range(args') = RepoHashes \ StoredHashes]_vars

C6_ParallelDeterminism ==
    Completed =>
        /\ Range(con.commits) = Range(AllCommitRows)
        /\ Range(con.edits) = Range(AllEditRows)
        /\ runs = 1 =>
            /\ SameMultiset(con.commits, AllCommitRows)
            /\ SameMultiset(con.edits, AllEditRows)

\* A complete run of a pool on a new store whose workers completed out of
\* order: the commit rows are not in the order of the repository.
C6_Witness ==
    /\ Completed
    /\ runs = 1
    /\ Len(con.commits) = Len(repo)
    /\ con.commits # AllCommitRows
    /\ con.edits # <<>>

\* C7. Idempotent resume: a run on the store that a complete run of the
\* same repository in the same mode has left adds no row, so that the store
\* holds the same multisets of rows after two runs as after one.
C7_IdempotentResume ==
    [][(last_outcome = "complete" /\ mpc # "idle") => con' = con]_vars

----------------------------------------------------------------------------
\* What the claims about the persisted edit rows speak of.

\* The modifications of the processed commit.
Mods == {commit.modifications[i] : i \in 1 .. Len(commit.modifications)}

\* The modifications that are not excluded and whose blame succeeded.
Attributed == {m \in Mods : m.blame.ok /\ ~exclude_file(m, exclude_paths, FALSE)}

\* The persisted edit rows of a modification, and the edits they come from.
PersistedRows(m) ==
    LET OfMod(r) == r.mod_new_path = m.new_path IN SelectSeq(con.edits, OfMod)

EditsOf(m) == identify_edits(m.deleted, m.added, use_blocks).edits

DeletedBlob(m, e) == join(block_of(m.deleted, e.pre_start, e.num_deleted))

AddedBlob(m, e) == join(block_of(m.added, e.post_start, e.num_added))

\* No character of the blob is below U+0100 (so for the empty blob).
NoLatin1(blob) == \A i \in 1 .. Len(blob) : blob[i] >= NumBins

Persisted == cpc = "appended"

\* C2. levenshtein_dist of a persisted edit row is null unless the edit has
\* deleted lines and added lines; the row of a pure insertion has
\* levenshtein_dist null and pre_commit null.
C2_LevenshteinNull ==
    Persisted =>
        \A m \in Attributed :
            \A i \in 1 .. Len(PersistedRows(m)) :
                LET r == PersistedRows(m)[i]
                    e == EditsOf(m)[i]
                IN  /\ (e.num_deleted = 0 \/ e.num_added = 0)
                        => r.levenshtein_dist = None
                    /\ e.num_deleted = 0 => r.pre_commit = None

\* C5. Every deleted line k of a modification whose blame succeeded is
\* covered by a persisted edit row whose pre_commit is the commit that the
\* blame of the parent revision reports for line k.
C5_BlamePerLine ==
    Persisted =>
        \A m \in Attributed :
            \A k \in DOMAIN m.deleted :
                \E i \in 1 .. Len(PersistedRows(m)) :
                    LET r == PersistedRows(m)[i]
                    IN  /\ r.pre_len_in_lines # None
                        /\ r.pre_starting_line_num <= k
                        /\ k < r.pre_starting_line_num + r.pre_len_in_lines[1]
                        /\ r.pre_commit = Some(original_commit_hash(m.blame.lines, k))

\* C9 as stated: every pre field of a persisted row is null iff the edit has
\* num_deleted = 0, every post field iff num_added = 0.
C9_NullDiscipline_Original ==
    Persisted =>
        \A m \in Attributed :
            /\ Len(PersistedRows(m)) = Len(EditsOf(m))
            /\ \A i \in 1 .. Len(PersistedRows(m)) :
                LET r == PersistedRows(m)[i]
                    e == EditsOf(m)[i]
                IN  /\ r.pre_len_in_lines = None <=> e.num_deleted = 0
                    /\ r.pre_len_in_chars = None <=> e.num_deleted = 0
                    /\ r.pre_entropy = None <=> e.num_deleted = 0
                    /\ r.pre_commit = None <=> e.num_deleted = 0
                    /\ r.post_len_in_lines = None <=> e.num_added = 0
                    /\ r.post_len_in_chars = None <=> e.num_added = 0
                    /\ r.post_entropy = None <=> e.num_added = 0

\* C9, amended. pre_len_in_lines, pre_len_in_chars and pre_commit are null
\* iff num_deleted = 0, post_len_in_lines and post_len_in_chars iff
\* num_added = 0; pre_entropy (post_entropy) is null iff the deleted (added)
\* lines joined by spaces hold no character below U+0100, which is so for
\* num_deleted = 0 (num_added = 0) and for an edit of one empty line.
C9_NullDiscipline ==
    Persisted =>
        \A m \in Attributed :
            /\ Len(PersistedRows(m)) = Len(EditsOf(m))
            /\ \A i \in 1 .. Len(PersistedRows(m)) :
                LET r == PersistedRows(m)[i]
                    e == EditsOf(m)[i]
                IN  /\ r.pre_len_in_lines = None <=> e.num_deleted = 0
                    /\ r.pre_len_in_chars = None <=> e.num_deleted = 0
                    /\ r.pre_commit = None <=> e.num_deleted = 0
                    /\ r.post_len_in_lines = None <=> e.num_added = 0
                    /\ r.post_len_in_chars = None <=> e.num_added = 0
                    /\ r.pre_entropy = None <=> NoLatin1(DeletedBlob(m, e))
                    /\ r.post_entropy = None <=> NoLatin1(AddedBlob(m, e))
                    /\ e.num_deleted = 0 => NoLatin1(DeletedBlob(m, e))
                    /\ e.num_added = 0 => NoLatin1(AddedBlob(m, e))

\* A persisted row of an edit that deletes one empty line and adds a line:
\* its pre_entropy is null, its pre_len_in_chars is 0.
C9_Witness ==
    /\ Persisted
    /\ \E i \in 1 .. Len(con.edits) :
        /\ con.edits[i].pre_len_in_lines = Some(1)
        /\ con.edits[i].pre_len_in_chars = Some(0)
        /\ con.edits[i].pre_entropy = None
        /\ con.edits[i].post_entropy # None

\* C10. When the blame of a modification raises, the persisted edit rows
\* hold no row of that modification and are the rows the commit yields
\* without it, and the commit row is written, counting all modifications.
C10_BlameFailureLocal ==
    (Persisted /\ \E m \in Mods : ~m.blame.ok) =>
        LET BlameOk(m) == m.blame.ok
            others == SelectSeq(commit.modifications, BlameOk)
            without == [commit EXCEPT !.modifications = others]
        IN  /\ \A m \in Mods : ~m.blame.ok => PersistedRows(m) = <<>>
            /\ con.edits =
                sql_rows(process_commit(without, exclude_paths, use_blocks).edits)
            /\ con.commits = <<commit_row(commit)>>
            /\ con.commits[1].modifications = Len(commit.modifications)

\* The blame of a pure insertion has raised, and the rows of the other
\* modification of the commit are persisted with the commit row.
C10_Witness ==
    /\ Persisted
    /\ Len(commit.modifications) = 2
    /\ \E m \in Mods :
        /\ ~m.blame.ok
        /\ DOMAIN m.deleted = {}
        /\ DOMAIN m.added = {1, 2}
    /\ Len(con.edits) = 1
    /\ Len(con.commits) = 1

----------------------------------------------------------------------------
\* C1. Mass conservation: when identify_edits returns, in line mode and in
\* block mode, the num_deleted of its edits sum to the number of deleted
\* lines and the num_added sum to the number of added lines.
C1_MassConservation ==
    apc = "done" =>
        /\ SumSeq(al.edits, "num_deleted") = Cardinality(DOMAIN deleted_lines)
        /\ SumSeq(al.edits, "num_added") = Cardinality(DOMAIN added_lines)

\* A block-mode return on interleaved runs: both maps hold two runs and the
\* aligner has returned more than two edits.
C1_Witness ==
    /\ apc = "done"
    /\ use_blocks
    /\ DOMAIN deleted_lines = {1, 3, 4}
    /\ DOMAIN added_lines = {2, 4}
    /\ Len(al.edits) > 2

\* C8. Block maximality: in block mode no edit's deleted block touches
\* another deleted line (pre_start - 1 and pre_start + num_deleted are not
\* keys of deleted), and likewise on the added side, pure insertions and
\* pure deletions included; checked on every edit as soon as it is emitted.
C8_BlockMaximality ==
    use_blocks =>
        \A i \in 1 .. Len(al.edits) :
            LET e == al.edits[i]
            IN  /\ e.pre_start - 1 \notin DOMAIN deleted_lines
                /\ e.pre_start + e.num_deleted \notin DOMAIN deleted_lines
                /\ e.post_start - 1 \notin DOMAIN added_lines
                /\ e.post_start + e.num_added \notin DOMAIN added_lines

\* A block-mode return with a pure insertion, a pure deletion and a block of
\* two lines among the edits.
C8_Witness ==
    /\ apc = "done"
    /\ use_blocks
    /\ \E i \in 1 .. Len(al.edits) : al.edits[i].num_deleted = 0
    /\ \E i \in 1 .. Len(al.edits) : al.edits[i].num_added = 0
    /\ \E i \in 1 .. Len(al.edits) : al.edits[i].num_deleted >= 2

----------------------------------------------------------------------------
\* The persisted edit rows of the file of a modification.
RowsOfFile(m) ==
    LET OfFile(r) == r.mod_filename = m.filename IN SelectSeq(con.edits, OfFile)

\* A path starts with an excluded prefix followed by the path separator.
UnderExcluded(path) ==
    /\ path # None
    /\ \E i \in 1 .. Len(exclude_paths) :
        /\ Len(path) > Len(exclude_paths[i])
        /\ \A j \in 1 .. Len(exclude_paths[i]) : path[j] = exclude_paths[i][j]
        /\ path[Len(exclude_paths[i]) + 1] = os_sep

\* C11. Exclusion filter: a modification (with lines changed and a blame
\* that succeeds) has edit rows in the store if and only if neither its
\* new_path nor its old_path is under an excluded prefix; the commit row is
\* written regardless and counts all modifications of the commit.
C11_ExclusionFilter ==
    Persisted =>
        /\ \A m \in Mods :
            (RowsOfFile(m) # <<>>)
                <=> ~(UnderExcluded(m.new_path) \/ UnderExcluded(m.old_path))
        /\ Len(con.commits) = 1
        /\ con.commits[1].hash = commit.hash
        /\ con.commits[1].modifications = Len(commit.modifications)

\* Excluded "d" and "d/b": dd/a is kept (no separator after d), b moved from
\* d/b to s/b is dropped for its old path, and the commit row counts both.
C11_Witness ==
    /\ Persisted
    /\ exclude_paths = <<<<100>>, Path_d_b>>
    /\ commit.modifications[1].new_path = PathIn(<<100, 100>>, 97)
    /\ commit.modifications[2].old_path = Path_d_b
    /\ commit.modifications[2].new_path = PathIn(<<115>>, 98)
    /\ Len(con.edits) = 1
    /\ con.edits[1].mod_filename = <<97>>
    /\ con.commits[1].modifications = 2

----------------------------------------------------------------------------
\* C12. Resume validation: while a run of mine_git_repo processes commits,
\* the store holds exactly one metadata row (written when the store was
\* created, validated when it existed).
C12_ResumeValidation ==
    mpc # "idle" => Len(con.metadata) = 1

----------------------------------------------------------------------------
\* The commits whose result the loop of the run has received and is done
\* with: in serial mode those before next, in parallel mode those dispatched
\* that no worker holds and that do not wait in the iterator.
Handled ==
    IF mpc = "serial" THEN {args[i] : i \in 1 .. next - 1}
    ELSE IF Running
    THEN {args[i] : i \in 1 .. next - 1}
         \ (UNION {Range(c) : c \in workers}
            \cup {outq[j].commit[1].hash : j \in 1 .. Len(outq)})
    ELSE {}

\* C13. Incremental persistence: in serial mode as in parallel mode, the
\* commit row of every result the run is done with is in the store, so a
\* run terminated after k results leaves the rows of those k commits.
C13_IncrementalPersistence == Handled \subseteq StoredHashes

----------------------------------------------------------------------------
\* C14. Mapping monotonicity: in the pre_to_post that identify_edits
\* returns, in both modes, of two lines a < b that are not mapped to removed
\* the image of a is strictly below the image of b.
C14_MappingMonotone ==
    apc = "done" =>
        \A a, b \in DOMAIN al.pre_to_post :
            (a < b /\ al.pre_to_post[a] # removed /\ al.pre_to_post[b] # removed)
                => al.pre_to_post[a] < al.pre_to_post[b]

\* A return whose mapping holds a removed line between two surviving lines,
\* the second of them shifted.
C14_Witness ==
    /\ apc = "done"
    /\ \E a, r, b \in DOMAIN al.pre_to_post :
        /\ a < r /\ r < b
        /\ al.pre_to_post[a] # removed
        /\ al.pre_to_post[r] = removed
        /\ al.pre_to_post[b] # removed
        /\ al.pre_to_post[b] # b

----------------------------------------------------------------------------
\* The place, among the modifications of the commit, of the modification a
\* persisted edit row comes from.
ModIndex(r) ==
    CHOOSE k \in 1 .. Len(commit.modifications) :
        commit.modifications[k].new_path = r.mod_new_path

\* C15. Edit ordering: the persisted edit rows of a commit come modification
\* after modification in the order of the commit's modifications, and those
\* of one modification in ascending pre_start, ties broken by ascending
\* post_start, no two of them with the same (pre_start, post_start).
C15_EditOrdering ==
    Persisted =>
        \A i, j \in 1 .. Len(con.edits) :
            i < j =>
                LET ri == con.edits[i]
                    rj == con.edits[j]
                IN  /\ ModIndex(ri) <= ModIndex(rj)
                    /\ ModIndex(ri) = ModIndex(rj) =>
                        \/ ri.pre_starting_line_num < rj.pre_starting_line_num
                        \/ /\ ri.pre_starting_line_num = rj.pre_starting_line_num
                           /\ ri.post_starting_line_num < rj.post_starting_line_num

\* Two rows of s/a with the same pre_start, then a row with a larger one,
\* then the row of d/b.
C15_Witness ==
    /\ Persisted
    /\ Len(con.edits) = 4
    /\ con.edits[1].mod_new_path = Path_s_a
    /\ con.edits[1].pre_starting_line_num = con.edits[2].pre_starting_line_num
    /\ con.edits[2].pre_starting_line_num < con.edits[3].pre_starting_line_num
    /\ con.edits[3].mod_new_path = Path_s_a
    /\ con.edits[4].mod_new_path = Path_d_b

----------------------------------------------------------------------------
\* C16. Malformed aligner input fails loudly: identify_edits does not return
\* (it raises) when a line map holds a zero or negative key.
C16_MalformedFailsLoudly ==
    (\E k \in DOMAIN deleted_lines \cup DOMAIN added_lines : k <= 0)
        => apc # "done"

----------------------------------------------------------------------------
\* The keys of a line map are one run of consecutive lines.
IsRun(keys) == keys # {} /\ keys = Min(keys) .. Max(keys)

\* C17. Replacement segmentation: when deleted is one run of d lines and
\* added one run of a lines starting at the same line s, block mode returns
\* the one edit (s, d, s, a); line mode returns max(d, a) edits, the first
\* min(d, a) of them (s+i, 1, s+i, 1) and the others single-line pure
\* deletions (d > a) or pure insertions (a > d); and in both modes the
\* deleted lines s+min(d, a) .. s+d-1 are mapped to removed.
C17_ReplacementSegmentation ==
    (/\ apc = "done"
     /\ IsRun(DOMAIN deleted_lines)
     /\ IsRun(DOMAIN added_lines)
     /\ Min(DOMAIN deleted_lines) = Min(DOMAIN added_lines))
    => LET s == Min(DOMAIN deleted_lines)
           d == Cardinality(DOMAIN deleted_lines)
           a == Cardinality(DOMAIN added_lines)
           both == min2(d, a)
       IN  /\ use_blocks => al.edits = <<Edit(s, d, s, a)>>
           /\ ~use_blocks =>
                /\ Len(al.edits) = d + a - both
                /\ \A i \in 0 .. both - 1 : al.edits[i + 1] = Edit(s + i, 1, s + i, 1)
                /\ \A i \in both + 1 .. Len(al.edits) :
                    /\ al.edits[i].num_deleted = BoolInt(d > a)
                    /\ al.edits[i].num_added = BoolInt(a > d)
           /\ \A k \in s + both .. s + d - 1 :
                /\ k \in DOMAIN al.pre_to_post
                /\ al.pre_to_post[k] = removed

\* A line-mode return on three deleted lines replaced by one added line.
C17_Witness ==
    /\ apc = "done"
    /\ ~use_blocks
    /\ DOMAIN deleted_lines = {2, 3, 4}
    /\ DOMAIN added_lines = {2}
    /\ Len(al.edits) = 3

----------------------------------------------------------------------------
\* What the claims about the projections speak of.

\* The pre_commit of an edit row abbreviates the hash of a commit row: that
\* commit last authored the deleted line.
LastAuthoredBy(e, c) ==
    /\ e.pre_commit # None
    /\ Len(e.pre_commit[1]) <= Len(c.hash)
    /\ e.pre_commit[1] = SubSeq(c.hash, 1, Len(e.pre_commit[1]))

\* An edit row with the commit row of its pre commit and of its post commit.
EditsInTable ==
    {t \in (1 .. Len(con.edits)) \X (1 .. Len(con.commits)) \X (1 .. Len(con.commits)) :
        /\ LastAuthoredBy(con.edits[t[1]], con.commits[t[2]])
        /\ con.commits[t[3]].hash = con.edits[t[1]].post_commit}

Projected ==
    /\ tedges # None
    /\ dag_edges # None
    /\ tedges[1].ok
    /\ dag_edges[1].ok

\* C18. Self-edge filter: an edit whose deleted line was last authored by
\* the author of the removing commit contributes no co-editing edge and no
\* DAG edge; an edit whose pre-author differs from the post-author, with
\* both commits in the commits table, contributes an edge from the
\* pre-author to the post-author to both projections.
C18_SelfEdgeFilter ==
    Projected =>
        \A t \in EditsInTable :
            LET source == con.commits[t[2]].author_email
                target == con.commits[t[3]].author_email
            IN  IF source = target
                THEN /\ \A r \in tedges[1].rows : r.edit # t[1]
                     /\ \A r \in dag_edges[1].rows : r.source[1] # r.target[1]
                ELSE /\ \E r \in tedges[1].rows :
                        r.edit = t[1] /\ r.source = source /\ r.target = target
                     /\ \E r \in dag_edges[1].rows :
                        /\ r.source[1] = source
                        /\ r.target = <<target, substr8(con.edits[t[1]].post_commit)>>

\* C19. Prefix joins: the projections join an edit row to the commit rows
\* whose hash has the same first 8 characters as its pre_commit and as its
\* post_commit, whatever the stored length of pre_commit.
C19_PrefixJoin ==
    Projected =>
        LET ByPrefix ==
                {t \in (1 .. Len(con.edits)) \X (1 .. Len(con.commits))
                        \X (1 .. Len(con.commits)) :
                    /\ con.edits[t[1]].pre_commit # None
                    /\ substr8(con.commits[t[2]].hash)
                        = substr8(con.edits[t[1]].pre_commit[1])
                    /\ substr8(con.commits[t[3]].hash)
                        = substr8(con.edits[t[1]].post_commit)
                    /\ con.commits[t[2]].author_email # con.commits[t[3]].author_email}
        IN  /\ {<<r.edit, r.c_pre, r.c_post>> : r \in tedges[1].rows} = ByPrefix
            /\ dag_edges[1].rows =
                {[source |-> <<con.commits[t[2]].author_email,
                               substr8(con.edits[t[1]].pre_commit[1])>>,
                  target |-> <<con.commits[t[3]].author_email,
                               substr8(con.edits[t[1]].post_commit)>>] : t \in ByPrefix}

----------------------------------------------------------------------------
\* The number of bytes of the UTF-8 encoding of a text.
RECURSIVE Utf8Len(_)
Utf8Len(text) ==
    IF text = <<>> THEN 0
    ELSE (IF text[1] < 128 THEN 1
          ELSE IF text[1] < 2048 THEN 2
          ELSE IF text[1] < 65536 THEN 3
          ELSE 4) + Utf8Len(Tail(text))

\* The total of a histogram as entropy keeps it.
RECURSIVE HistTotal(_)
HistTotal(counts) ==
    IF DOMAIN counts = {} THEN 0
    ELSE LET b == CHOOSE x \in DOMAIN counts : TRUE
         IN  counts[b] + HistTotal([x \in DOMAIN counts \ {b} |-> counts[x]])

\* The rows process_commit returned for a modification.
ReturnedRows(m) ==
    LET OfMod(r) == r.mod_new_path = m.new_path IN SelectSeq(result.edits, OfMod)

\* C20. Byte-level entropy: the entropy of every non-empty added blob is
\* computed, over a histogram whose total is the number of bytes of the
\* blob's encoding (so positive, also for text above U+00FF).
C20_ByteHistogram ==
    cpc \in {"returned", "commit_appended", "appended"} =>
        \A m \in Attributed :
            \A i \in 1 .. Len(EditsOf(m)) :
                LET blob == AddedBlob(m, EditsOf(m)[i])
                    row == ReturnedRows(m)[i]
                IN  blob # <<>> =>
                        /\ row.post_entropy # None
                        /\ HistTotal(row.post_entropy[1].counts) = Utf8Len(blob)
                        /\ HistTotal(row.post_entropy[1].counts) > 0

----------------------------------------------------------------------------
\* C21. The aligner is total on well-formed inputs: every iteration of the
\* loop of identify_edits leaves neither pre nor post smaller and advances
\* one of them; the loop ends and identify_edits returns, in both modes; and
\* for two empty line maps it returns no edits and an empty pre_to_post.
C21_AlignerTotal ==
    /\ [][(apc = "loop" /\ apc' = "loop")
          => /\ al'.pre >= al.pre
             /\ al'.post >= al.post
             /\ al'.pre + al'.post > al.pre + al.post]_vars
    /\ <>(apc = "done")
    /\ []((apc = "done" /\ DOMAIN deleted_lines = {} /\ DOMAIN added_lines = {})
            => (al.edits = <<>> /\ al.pre_to_post = <<>>))

\* A line-mode return after the loop has run past two deleted and two added
\* lines that do not face each other.
C21_Witness ==
    /\ apc = "done"
    /\ ~use_blocks
    /\ DOMAIN deleted_lines = {1, 4}
    /\ DOMAIN added_lines = {2, 3}
    /\ al.pre > 4
    /\ al.post > 3

----------------------------------------------------------------------------
\* The locals of identify_edits after its loop, had it been called on the
\* same line maps in the other mode.
OtherMode ==
    loop(identify_init(DOMAIN deleted_lines, DOMAIN added_lines),
         DOMAIN deleted_lines, DOMAIN added_lines, ~use_blocks)

\* C23. Mode independence of the mapping: on every pair of line maps with
\* positive keys, identify_edits returns the same pre_to_post with
\* use_blocks=True as with use_blocks=False, and pre and post end at the
\* same line numbers; only the segmentation into edits differs.
C23_ModeIndependence ==
    apc = "done" =>
        /\ al.pre_to_post = OtherMode.pre_to_post
        /\ al.pre = OtherMode.pre
        /\ al.post = OtherMode.post

\* Block mode has returned on a block of three deleted lines replaced by
\* one added line, with a second added line further down: the edits are
\* not those of line mode.
C23_Witness ==
    /\ apc = "done"
    /\ use_blocks
    /\ DOMAIN deleted_lines = {1, 2, 3}
    /\ DOMAIN added_lines = {1, 4}
    /\ al.edits # OtherMode.edits
    /\ \E k \in DOMAIN al.pre_to_post : al.pre_to_post[k] = removed

----------------------------------------------------------------------------
\* The number of keys of a line map below line k.
KeysBelow(keys, k) == Cardinality({x \in keys : x < k})

\* C24. Alignment of surviving lines: in the pre_to_post that identify_edits
\* returns, every pre line k that is not a key of deleted has an image m
\* that is not removed, is not a key of added, and is as far past the added
\* lines below it as k is past the deleted lines below it:
\* k - |{d in deleted : d < k}| = m - |{a in added : a < m}|; and only keys
\* of deleted are mapped to removed.
C24_SurvivingAligned ==
    apc = "done" =>
        /\ \A k \in DOMAIN al.pre_to_post \ DOMAIN deleted_lines :
              LET m == al.pre_to_post[k]
              IN  /\ m # removed
                  /\ m \notin DOMAIN added_lines
                  /\ k - KeysBelow(DOMAIN deleted_lines, k)
                        = m - KeysBelow(DOMAIN added_lines, m)
        /\ \A k \in DOMAIN al.pre_to_post :
              al.pre_to_post[k] = removed => k \in DOMAIN deleted_lines

\* identify_edits has returned on maps in which lines survive between the
\* changes: line 2 has moved down past two added lines, line 4 is back in
\* step after the deletion of line 3.
C24_Witness ==
    /\ apc = "done"
    /\ DOMAIN deleted_lines = {1, 3}
    /\ DOMAIN added_lines = {1, 2, 3}
    /\ 2 \in DOMAIN al.pre_to_post
    /\ al.pre_to_post[2] = 4
    /\ al.pre_to_post[3] = removed

----------------------------------------------------------------------------
\* What the claim about the scheduling speaks of.

\* The hashes to process: those of the repository that are not in _p_commits.
ToProcess == RepoHashes \ Range(_p_commits)

\* The results the sink has yet to take from the iterator.
Pending == IF mpc = "parallel_edits" THEN Tail(outq) ELSE outq

\* How often the commit of hash h is waiting to be dispatched, is with a
\* worker, is a result the sink has yet to take, is a row of the frame
\* df_commits not yet appended, and is a row of the commits table.
Waiting(h) == Cardinality({i \in next .. Len(args) : args[i] = h})

WithWorker(h) ==
    Cardinality({<<c, i>> \in workers \X (1 .. MaxChunk + 1) :
                    i <= Len(c) /\ c[i] = h})

InPending(h) ==
    Cardinality({j \in 1 .. Len(Pending) : Pending[j].commit[1].hash = h})

InFrame(h) ==
    IF mpc = "serial"
    THEN Cardinality({j \in 1 .. Len(df_commits) : df_commits[j].hash = h})
    ELSE 0

Appended(h) ==
    Cardinality({j \in 1 .. Len(con.commits) : con.commits[j].hash = h})

\* The commit rows of the commits to process, in the order of the repository.
RECURSIVE RowsToProcess(_)
RowsToProcess(commits) ==
    IF commits = <<>> THEN <<>>
    ELSE (IF commits[1].hash \in ToProcess
          THEN process_args(commits[1].hash).commit ELSE <<>>)
         \o RowsToProcess(Tail(commits))

\* C22. Exactly-once scheduling: process_repo_serial and
\* process_repo_parallel, with any number of workers, any chunk size and any
\* order of completion, process exactly the commits whose hash is not in
\* _p_commits, each exactly once (during the call each such commit is at
\* one place: waiting, with a worker, a result not yet taken, a row of
\* df_commits or a row of the commits table, and no other commit is at any
\* of them); on completion exactly one commit row
\* per such commit has been appended; and only the sink writes to the
\* store, never a step of a worker.
C22_ExactlyOnce ==
    /\ [](mpc # "idle" =>
            /\ Range(args) = ToProcess
            /\ \A h \in ToProcess :
                    Waiting(h) + WithWorker(h) + InPending(h) + InFrame(h)
                        + Appended(h) = 1
            /\ \A h \in HistoryHashes \ ToProcess :
                    Waiting(h) + WithWorker(h) + InPending(h) + InFrame(h)
                        + Appended(h) = 0)
    /\ [](Completed => SameMultiset(con.commits, RowsToProcess(repo)))
    /\ [][con' # con =>
            /\ workers' = workers
            /\ \/ mpc = "serial" /\ next > Len(args)
               \/ mpc = "serial_edits"
               \/ mpc = "parallel" /\ outq # <<>>
               \/ mpc = "parallel_edits"]_vars

\* A pool of two workers is done with a call that skipped the second of
\* three commits, and the third commit was appended before the first.
C22_Witness ==
    /\ mpc = "parallel"
    /\ num_processes = 2
    /\ Len(repo) = 3
    /\ _p_commits = <<HashOf(2)>>
    /\ next > Len(args)
    /\ workers = {}
    /\ outq = <<>>
    /\ Len(con.commits) = 2
    /\ con.commits[1].hash = HashOf(3)
    /\ con.commits[2].hash = HashOf(1)

====
